---- MODULE Spec2Model ----
(***************************************************************************)
(* Model of the IdeaGO chat service: the /chat request handler (app.py)    *)
(* and the ProjectChatChain orchestrator (llm_chain.py).                   *)
(*                                                                         *)
(* Texts (user messages, backend replies) are sequences of symbols.  A     *)
(* symbol is one character, except that a fence marker (three backticks),  *)
(* a JSON string literal, a JSON number and the literal null are one       *)
(* symbol each.  JSON values are tagged records.                           *)
(***************************************************************************)
EXTENDS Integers, Sequences, FiniteSets, TLC

(***************************************************************************)
(* Bounds of the model.                                                    *)
(***************************************************************************)
MaxRequests == 2

Requests == 1..MaxRequests

(***************************************************************************)
(* Symbols.                                                                *)
(***************************************************************************)
\* the fence marker: three backticks
FENCE == "<fence>"
WS == {" ", "\n"}
StrSyms == {"\"project\"", "\"talent\"", "\"talents\"", "\"name\"", "\"dev\""}
NumSyms == {"0", "1"}

StrOf(sym) ==
  CASE sym = "\"project\"" -> "project"
    [] sym = "\"talent\""  -> "talent"
    [] sym = "\"talents\"" -> "talents"
    [] sym = "\"name\""    -> "name"
    [] OTHER               -> "dev"

NumOf(sym) == IF sym = "0" THEN 0 ELSE 1

\* A string literal can also be spelled out: the quote mark, the symbols of
\* its content, the quote mark.  (Member names are always symbols of
\* StrSyms in the texts of this model.)
QUOTE == "\""

(***************************************************************************)
(* JSON values as json.loads builds them: None, int, str, list, dict.      *)
(***************************************************************************)
JNull == [k |-> "null"]
JNum(n) == [k |-> "num", n |-> n]
JStr(s) == [k |-> "str", s |-> s]
JArr(items) == [k |-> "arr", items |-> items]
JObj(fields) == [k |-> "obj", fields |-> fields]
\* the str of a spelled-out string literal
JText(chars) == [k |-> "text", chars |-> chars]

NoFields == [x \in {} |-> JNull]
Put(fields, key, val) == [x \in (DOMAIN fields) \cup {key} |->
                            IF x = key THEN val ELSE fields[x]]
Del(fields, key) == [x \in (DOMAIN fields) \ {key} |-> fields[x]]

(***************************************************************************)
(* json.loads on a symbol sequence: a recursive-descent parse of one JSON  *)
(* value, surrounded by optional whitespace, spanning the whole text.      *)
(***************************************************************************)
ParseFail == [ok |-> FALSE, val |-> JNull, pos |-> 0]
ParseOk(v, p) == [ok |-> TRUE, val |-> v, pos |-> p]

RECURSIVE SkipWs(_, _)
SkipWs(t, i) == IF i <= Len(t) /\ t[i] \in WS THEN SkipWs(t, i + 1) ELSE i

\* where the string literal opened before position i ends: the first quote
\* mark (that of a StrSyms symbol too) or raw newline from i on, 0 when none
RECURSIVE StringEnd(_, _)
StringEnd(t, i) ==
  IF i > Len(t) THEN 0
  ELSE IF t[i] \in {QUOTE, "\n"} \cup StrSyms THEN i
  ELSE StringEnd(t, i + 1)

RECURSIVE ParseValue(_, _)
RECURSIVE ParseMembers(_, _, _)
RECURSIVE ParseElements(_, _, _)

\* after "{" or ",": a "key : value" pair, then "," or "}"
ParseMembers(t, i, fields) ==
  LET j == SkipWs(t, i) IN
  IF j > Len(t) \/ t[j] \notin StrSyms THEN ParseFail
  ELSE LET c == SkipWs(t, j + 1) IN
       IF c > Len(t) \/ t[c] # ":" THEN ParseFail
       ELSE LET v == ParseValue(t, c + 1) IN
            IF ~v.ok THEN ParseFail
            ELSE LET e == SkipWs(t, v.pos)
                     f == Put(fields, StrOf(t[j]), v.val) IN
                 IF e > Len(t) THEN ParseFail
                 ELSE IF t[e] = "," THEN ParseMembers(t, e + 1, f)
                 ELSE IF t[e] = "}" THEN ParseOk(JObj(f), e + 1)
                 ELSE ParseFail

\* after "[" or ",": a value, then "," or "]"
ParseElements(t, i, items) ==
  LET v == ParseValue(t, i) IN
  IF ~v.ok THEN ParseFail
  ELSE LET e == SkipWs(t, v.pos)
           a == Append(items, v.val) IN
       IF e > Len(t) THEN ParseFail
       ELSE IF t[e] = "," THEN ParseElements(t, e + 1, a)
       ELSE IF t[e] = "]" THEN ParseOk(JArr(a), e + 1)
       ELSE ParseFail

ParseValue(t, i) ==
  LET j == SkipWs(t, i) IN
  IF j > Len(t) THEN ParseFail
  ELSE IF t[j] = "{" THEN
         LET c == SkipWs(t, j + 1) IN
         IF c <= Len(t) /\ t[c] = "}" THEN ParseOk(JObj(NoFields), c + 1)
         ELSE ParseMembers(t, j + 1, NoFields)
  ELSE IF t[j] = "[" THEN
         LET c == SkipWs(t, j + 1) IN
         IF c <= Len(t) /\ t[c] = "]" THEN ParseOk(JArr(<<>>), c + 1)
         ELSE ParseElements(t, j + 1, <<>>)
  ELSE IF t[j] \in StrSyms THEN ParseOk(JStr(StrOf(t[j])), j + 1)
  ELSE IF t[j] = QUOTE THEN
         LET c == StringEnd(t, j + 1) IN
         IF c # 0 /\ t[c] = QUOTE THEN ParseOk(JText(SubSeq(t, j + 1, c - 1)), c + 1)
         ELSE ParseFail
  ELSE IF t[j] \in NumSyms THEN ParseOk(JNum(NumOf(t[j])), j + 1)
  ELSE IF t[j] = "null" THEN ParseOk(JNull, j + 1)
  ELSE ParseFail

\* json.loads(t): [ok, val]; ok = FALSE stands for JSONDecodeError
JsonLoads(t) ==
  LET v == ParseValue(t, 1) IN
  IF v.ok /\ SkipWs(t, v.pos) > Len(t) THEN [ok |-> TRUE, val |-> v.val]
  ELSE [ok |-> FALSE, val |-> JNull]

(***************************************************************************)
(* str.strip and the text helpers.                                         *)
(***************************************************************************)
RECURSIVE StripChars(_, _)
StripChars(t, chars) ==
  IF t = <<>> THEN t
  ELSE IF t[1] \in chars THEN StripChars(Tail(t), chars)
  ELSE IF t[Len(t)] \in chars THEN StripChars(SubSeq(t, 1, Len(t) - 1), chars)
  ELSE t

Strip(t) == StripChars(t, WS)

\* str.find from position i: the first index >= i holding sym, 0 when none
RECURSIVE FindFrom(_, _, _)
FindFrom(t, sym, i) ==
  IF i > Len(t) THEN 0
  ELSE IF t[i] = sym THEN i
  ELSE FindFrom(t, sym, i + 1)

\* str.rfind: the last index holding sym, 0 when none
RECURSIVE RFind(_, _, _)
RFind(t, sym, i) ==
  IF i < 1 THEN 0
  ELSE IF t[i] = sym THEN i
  ELSE RFind(t, sym, i - 1)

JsonTag == <<"j", "s", "o", "n">>

\* the position after an optional language tag "json" at position i
SkipTag(t, i) ==
  IF i + 3 <= Len(t) /\ SubSeq(t, i, i + 3) = JsonTag THEN i + 4 ELSE i

\* keyword in text: a contiguous occurrence
Contains(text, kw) ==
  \E i \in 1..(Len(text) - Len(kw) + 1) : SubSeq(text, i, i + Len(kw) - 1) = kw

(***************************************************************************)
(* JsonOutputParser.parse (langchain_core), as process_message uses it:    *)
(* the text stripped of whitespace and fence marks is parsed; when that    *)
(* fails, what follows the first fence mark and its optional tag is        *)
(* stripped and parsed.  ok = FALSE stands for OutputParserException.  The *)
(* library's completion of a truncated JSON text is not modelled: the      *)
(* replies of this model are complete JSON texts or no JSON at all.        *)
(***************************************************************************)
ParserParse(text) ==
  LET s == Strip(text)
      whole == JsonLoads(StripChars(s, WS \cup {FENCE}))
      o == FindFrom(s, FENCE, 1)
      rest == IF o = 0 THEN s ELSE SubSeq(s, SkipTag(s, o + 1), Len(s))
  IN IF whole.ok THEN whole
     ELSE JsonLoads(StripChars(rest, WS \cup {FENCE}))

(***************************************************************************)
(* _extract_json_from_text                                                 *)
(***************************************************************************)
\* re.findall of the fenced-block pattern, scanning from position i: the
\* captured contents, in document order
RECURSIVE FenceMatches(_, _)
FenceMatches(t, i) ==
  LET o == FindFrom(t, FENCE, i) IN
  IF o = 0 THEN <<>>
  ELSE LET b == SkipWs(t, SkipTag(t, o + 1))
           c == FindFrom(t, FENCE, b) IN
       IF c = 0 THEN <<>>
       ELSE <<SubSeq(t, b, c - 1)>> \o FenceMatches(t, c + 1)

\* the first match that parses, stripped; <<>> when none does.  (A match
\* that parses is never empty.)
RECURSIVE FirstValid(_)
FirstValid(matches) ==
  IF matches = <<>> THEN <<>>
  ELSE IF JsonLoads(Strip(matches[1])).ok THEN Strip(matches[1])
  ELSE FirstValid(Tail(matches))

\* mutant: the brace scan is tried before the fenced blocks
_extract_json_from_text_BraceScanFirst(text) ==
  LET fenced == FirstValid(FenceMatches(text, 1))
      start == FindFrom(text, "{", 1)
      end == RFind(text, "}", Len(text))
      json_text == SubSeq(text, start, end)
  IN IF start >= 1 /\ end > start /\ JsonLoads(json_text).ok THEN json_text
     ELSE IF fenced # <<>> THEN fenced
     ELSE text

_extract_json_from_text(text) ==
  LET fenced == FirstValid(FenceMatches(text, 1))
      start == FindFrom(text, "{", 1)
      end == RFind(text, "}", Len(text))
      json_text == SubSeq(text, start, end)
  IN IF fenced # <<>> THEN fenced
     ELSE IF start >= 1 /\ end > start /\ JsonLoads(json_text).ok THEN json_text
     ELSE text

(***************************************************************************)
(* _validate_project_data: [ok, data]; ok = FALSE stands for the exception *)
(* it raises (ValueError, or the TypeError of a value that is no dict).    *)
(***************************************************************************)
IsList(v) == v.k = "arr"

\* mutant: the singular talent key is kept beside the new talents array
_validate_project_data_KeepsTalent(data) ==
  IF data.k # "obj" THEN [ok |-> FALSE, data |-> data]
  ELSE IF "project" \notin DOMAIN data.fields THEN [ok |-> FALSE, data |-> data]
  ELSE IF "talent" \notin DOMAIN data.fields /\ "talents" \notin DOMAIN data.fields
       THEN [ok |-> FALSE, data |-> data]
  ELSE LET f1 == IF "talent" \in DOMAIN data.fields /\ "talents" \notin DOMAIN data.fields
                 THEN Put(data.fields, "talents", JArr(<<data.fields["talent"]>>))
                 ELSE data.fields
           f2 == IF ~IsList(f1["talents"])
                 THEN Put(f1, "talents", JArr(<<f1["talents"]>>))
                 ELSE f1
       IN IF f2["talents"].items = <<>> THEN [ok |-> FALSE, data |-> JObj(f2)]
          ELSE [ok |-> TRUE, data |-> JObj(f2)]

\* mutant: the check for an empty talents array is missing
_validate_project_data_AcceptsEmpty(data) ==
  IF data.k # "obj" THEN [ok |-> FALSE, data |-> data]
  ELSE IF "project" \notin DOMAIN data.fields THEN [ok |-> FALSE, data |-> data]
  ELSE IF "talent" \notin DOMAIN data.fields /\ "talents" \notin DOMAIN data.fields
       THEN [ok |-> FALSE, data |-> data]
  ELSE LET f1 == IF "talent" \in DOMAIN data.fields /\ "talents" \notin DOMAIN data.fields
                 THEN Del(Put(data.fields, "talents", JArr(<<data.fields["talent"]>>)),
                          "talent")
                 ELSE data.fields
           f2 == IF ~IsList(f1["talents"])
                 THEN Put(f1, "talents", JArr(<<f1["talents"]>>))
                 ELSE f1
       IN [ok |-> TRUE, data |-> JObj(f2)]

_validate_project_data(data) ==
  IF data.k # "obj" THEN [ok |-> FALSE, data |-> data]
  ELSE IF "project" \notin DOMAIN data.fields THEN [ok |-> FALSE, data |-> data]
  ELSE IF "talent" \notin DOMAIN data.fields /\ "talents" \notin DOMAIN data.fields
       THEN [ok |-> FALSE, data |-> data]
  ELSE LET f1 == IF "talent" \in DOMAIN data.fields /\ "talents" \notin DOMAIN data.fields
                 THEN Del(Put(data.fields, "talents", JArr(<<data.fields["talent"]>>)),
                          "talent")
                 ELSE data.fields
           f2 == IF ~IsList(f1["talents"])
                 THEN Put(f1, "talents", JArr(<<f1["talents"]>>))
                 ELSE f1
       IN IF f2["talents"].items = <<>> THEN [ok |-> FALSE, data |-> JObj(f2)]
          ELSE [ok |-> TRUE, data |-> JObj(f2)]

(***************************************************************************)
(* Trigger detection: SUBMIT_KEYWORDS and the test of process_message.     *)
(***************************************************************************)
SUBMIT_KEYWORDS == {
  <<"#", "s", "u", "b", "m", "i", "t">>,
  <<"#", "g", "e", "n", "e", "r", "a", "t", "e">>,
  <<"#", "s", "e", "l", "e", "s", "a", "i">>,
  <<"#", "s", "a", "v", "e">>,
  <<"#", "s", "i", "m", "p", "a", "n">>,
  <<"#", "f", "i", "n", "i", "s", "h">>,
  <<"#", "d", "o", "n", "e">>,
  <<"#", "c", "o", "m", "p", "l", "e", "t", "e">>,
  <<"#", "e", "n", "d">>,
  <<"#", "k", "i", "r", "i", "m">>,
  <<"#", "b", "u", "a", "t">>,
  <<"#", "c", "r", "e", "a", "t", "e">>
}

Uppers == <<"A", "B", "C", "D", "E", "F", "G", "H", "I", "J", "K", "L", "M",
            "N", "O", "P", "Q", "R", "S", "T", "U", "V", "W", "X", "Y", "Z">>
Lowers == <<"a", "b", "c", "d", "e", "f", "g", "h", "i", "j", "k", "l", "m",
            "n", "o", "p", "q", "r", "s", "t", "u", "v", "w", "x", "y", "z">>

\* str.lower
LowerChar(c) ==
  IF \E i \in DOMAIN Uppers : Uppers[i] = c
  THEN Lowers[CHOOSE i \in DOMAIN Uppers : Uppers[i] = c]
  ELSE c
Lower(text) == [i \in DOMAIN text |-> LowerChar(text[i])]

\* str.upper
UpperChar(c) ==
  IF \E i \in DOMAIN Lowers : Lowers[i] = c
  THEN Uppers[CHOOSE i \in DOMAIN Lowers : Lowers[i] = c]
  ELSE c
Upper(text) == [i \in DOMAIN text |-> UpperChar(text[i])]

\* str.swapcase
SwapCase(text) ==
  [i \in DOMAIN text |-> IF LowerChar(text[i]) # text[i] THEN LowerChar(text[i])
                          ELSE UpperChar(text[i])]

\* mutant: the confirmation word "ok" is a trigger too
IsSubmit_ConfirmationWords(message) ==
  \/ \E keyword \in SUBMIT_KEYWORDS : Contains(Lower(message), keyword)
  \/ Contains(Lower(message), <<"o", "k">>)

\* mutant: the text is not lower-cased before the match
IsSubmit_CaseSensitive(message) ==
  \E keyword \in SUBMIT_KEYWORDS : Contains(message, keyword)

\* any(keyword in message.lower() for keyword in SUBMIT_KEYWORDS)
IsSubmit(message) == \E keyword \in SUBMIT_KEYWORDS : Contains(Lower(message), keyword)

(***************************************************************************)
(* The user texts and the backend replies the model draws from.            *)
(***************************************************************************)
MsgOk == <<"o", "k">>
MsgSubmit == <<"#", "s", "u", "b", "m", "i", "t">>
UserTexts == {MsgOk, MsgSubmit}

TalentText == <<"{", "\"name\"", ":", "\"dev\"", "}">>
\* the value TalentText denotes
TalentValue == JObj([x \in {"name"} |-> JStr("dev")])
\* prose that holds no JSON, and names a trigger keyword
ReplyProse == <<"u", "s", "e", " ">> \o MsgSubmit
\* a fenced record with a singular talent
ReplyFencedTalent ==
  <<FENCE>> \o JsonTag \o <<"\n", "{", "\"project\"", ":", "{", "}", ",", "\"talent\"", ":">>
  \o TalentText \o <<"}", "\n", FENCE>>
\* a record that conforms to the schema
ReplyValid ==
  <<"{", "\"project\"", ":", "{", "}", ",", "\"talents\"", ":", "[">>
  \o TalentText \o <<"]", "}">>
\* a record with no project and no talent
ReplyNoProject == <<"{", "\"talents\"", ":", "[", "]", "}">>
\* JSON that is no object
ReplyArray == <<"[", "1", "]">>
\* the empty record
ReplyEmptyObject == <<"{", "}">>

\* what the backend answers to the primary call, and to the escalation call
Replies == {ReplyProse, ReplyFencedTalent, ReplyArray, ReplyNoProject, ReplyEmptyObject}
EscReplies == Replies \cup {ReplyValid}

\* the outcome of a generation call that raises
GenFailure == <<"<failure>">>
\* no escalation call was made
NoCall == <<>>

CONFIRM_TEXT == <<"Baik, saya telah menyimpan detail project Anda.">>
APOLOGY_TEXT == <<"Maaf, saya gagal membuat data project.">>

(***************************************************************************)
(* process_message, after the primary generation call has returned         *)
(* `response`.  `esc` is what the escalation call self.llm.predict yields  *)
(* if it is made: a reply, or GenFailure when it raises.                   *)
(***************************************************************************)
Result(response, parsed_data, is_final) ==
  [response |-> response, parsed_data |-> parsed_data, is_final |-> is_final]

NoResult == Result(<<>>, JNull, FALSE)
FinalResult(parsed_data) == Result(CONFIRM_TEXT, parsed_data, TRUE)
ApologyResult == Result(APOLOGY_TEXT, JNull, FALSE)

\* line 211 and the return of lines 213-217, or the except of line 218
Validated(checked) == IF checked.ok THEN FinalResult(checked.data) ELSE ApologyResult

\* lines 208-211: parsed_data = json.loads(cleaned_response), validated
Loaded(loaded) ==
  IF loaded.ok THEN Validated(_validate_project_data(loaded.val)) ELSE ApologyResult

\* the except branch of lines 165-211: the escalation round
EscalationRound(esc) ==
  IF esc = GenFailure THEN ApologyResult
  ELSE Loaded(JsonLoads(_extract_json_from_text(esc)))

\* mutant: the except branch gives up without an escalation call
Escalates_NoRetry(is_submit, response) == FALSE

\* the escalation call is made when the message triggers and the primary
\* reply does not parse
Escalates(is_submit, response) == is_submit /\ ~ParserParse(response).ok

\* mutant: the trigger is also looked for in the generated reply
process_message_TriggerOnReply(is_submit, response, esc) ==
  IF ~(is_submit \/ IsSubmit(response)) THEN Result(response, JNull, FALSE)
  ELSE LET parsed == ParserParse(response) IN
       IF parsed.ok THEN FinalResult(parsed.val)
       ELSE EscalationRound(esc)

process_message(is_submit, response, esc) ==
  IF ~is_submit THEN Result(response, JNull, FALSE)
  ELSE LET parsed == ParserParse(response) IN
       IF parsed.ok THEN FinalResult(parsed.val)
       ELSE EscalationRound(esc)

\* process_message and its tests, tabulated over the inputs of the model
TriggerFor == [text \in UserTexts |-> IsSubmit(text)]
EscalatesFor ==
  [is_submit \in BOOLEAN, response \in Replies |-> Escalates(is_submit, response)]
ResultFor ==
  [is_submit \in BOOLEAN, response \in Replies,
   esc \in EscReplies \cup {GenFailure, NoCall} |->
     process_message(is_submit, response, esc)]

(***************************************************************************)
(* The chat handler's treatment of a result (app.py lines 157-174).        *)
(***************************************************************************)
\* Python truth value of a parsed value
Truthy(v) ==
  CASE v.k = "null" -> FALSE
    [] v.k = "num"  -> v.n # 0
    [] v.k = "str"  -> v.s # ""
    [] v.k = "text" -> v.chars # <<>>
    [] v.k = "arr"  -> v.items # <<>>
    [] OTHER        -> DOMAIN v.fields # {}

\* lines 160-167: [ok, data]; ok = FALSE stands for the AttributeError or
\* TypeError a value that is no dict raises there
StoreShape(data) ==
  IF data.k # "obj" THEN [ok |-> FALSE, data |-> data]
  ELSE LET f == data.fields IN
       IF "talent" \in DOMAIN f /\ "talents" \notin DOMAIN f
       THEN [ok |-> TRUE,
             data |-> JObj(Del(Put(f, "talents", JArr(<<f["talent"]>>)), "talent"))]
       ELSE IF "talents" \in DOMAIN f /\ ~IsList(f["talents"])
       THEN [ok |-> TRUE, data |-> JObj(Put(f, "talents", JArr(<<f["talents"]>>)))]
       ELSE [ok |-> TRUE, data |-> data]

\* does the handler store a record for this result
StoresRecord(result) == result.is_final /\ Truthy(result.parsed_data)

(***************************************************************************)
(* State.                                                                  *)
(*   memory   the one ConversationBufferMemory of the process: turns       *)
(*            [role, content]; rid is a history field naming the request   *)
(*            whose message the turn belongs to                            *)
(*   store    table chat_messages, committed rows in creation order        *)
(*   records  table project_data, committed rows in creation order         *)
(*   sessions table chat_sessions                                          *)
(*   req      the chat requests, each at one of its suspension points,     *)
(*            with the local variables of chat and process_message that    *)
(*            are live there; result is what process_message returned      *)
(*   input,   the argument and the value of one application of a pure      *)
(*   output   function of the program, for the specifications that         *)
(*            exercise these functions on their own                        *)
(***************************************************************************)
VARIABLES memory, store, records, sessions, req, input, output

vars == <<memory, store, records, sessions, req, input, output>>
pure_vars == <<input, output>>

\* no function is being exercised
NoInput == [fn |-> "none"]
NoOutput == [fn |-> "none"]

Turn(role, content, rid) == [role |-> role, content |-> content, rid |-> rid]
Row(sid, role, content, rid) ==
  [sid |-> sid, role |-> role, content |-> content, rid |-> rid]

IdleReq ==
  [pc |-> "idle", sid |-> 0, new |-> FALSE, content |-> <<>>, prev |-> <<>>,
   prompt |-> <<>>, is_submit |-> FALSE, alone |-> FALSE, hydrated |-> FALSE,
   calls |-> 0, failed |-> "none",
   response |-> <<>>, completion_response |-> NoCall,
   result |-> NoResult, rec |-> <<>>, project_data |-> <<>>]

\* The database file outlives the process: at start it holds session 0 with
\* one turn pair of an earlier run of the service.
History0 == <<Row(0, "user", MsgOk, 0), Row(0, "assistant", ReplyProse, 0)>>

\* the process has started; n requests will arrive during the run
Started(n) ==
  /\ memory = <<>>
  /\ store = History0
  /\ sessions = {0}
  /\ records = <<>>
  /\ req = [r \in 1..n |-> IdleReq]

Init ==
  /\ Started(MaxRequests)
  /\ input = NoInput
  /\ output = NoOutput

\* The escalation call self.llm.predict is synchronous: while a request is
\* in it, the event loop runs no other coroutine and accepts no request.
Blocked == \E q \in DOMAIN req : req[q].pc = "escalating"

\* requests are numbered in order of arrival
Arrives(r) ==
  /\ r \in DOMAIN req
  /\ ~Blocked
  /\ req[r].pc = "idle"
  /\ \A q \in DOMAIN req : q < r => req[q].pc # "idle"

\* no other request is between its arrival and its response
Alone(r) == \A q \in DOMAIN req \ {r} : req[q].pc \in {"idle", "done", "error"}

\* the session ids a client can send: those a response has returned
KnownSessions ==
  (sessions \cap {0}) \cup {req[q].sid : q \in {x \in DOMAIN req : req[x].pc = "done"}}

RECURSIVE SelectSeq2(_, _)
\* rows of a table for one session, in creation order
SelectSeq2(rows, sid) ==
  IF rows = <<>> THEN <<>>
  ELSE IF rows[1].sid = sid THEN <<rows[1]>> \o SelectSeq2(Tail(rows), sid)
  ELSE SelectSeq2(Tail(rows), sid)

(***************************************************************************)
(* chat, lines 119-124: a request that continues session sid; the SELECT   *)
(* of its previous messages is executed.                                   *)
(***************************************************************************)
BeginResume(r, sid, text) ==
  /\ Arrives(r)
  /\ sid \in KnownSessions
  /\ req' = [req EXCEPT ![r] = [@ EXCEPT !.pc = "fetching", !.sid = sid,
                                         !.content = text, !.alone = Alone(r),
                                         !.prev = SelectSeq2(store, sid)]]
  /\ UNCHANGED <<memory, store, records, sessions, pure_vars>>

\* line 127: are the previous messages loaded into memory
Rehydrates(mem, previous_messages) == mem = <<>> /\ previous_messages # <<>>

RECURSIVE UserRows(_)
\* the rows of role user, in order
UserRows(rows) ==
  IF rows = <<>> THEN <<>>
  ELSE IF rows[1].role = "user" THEN <<rows[1]>> \o UserRows(Tail(rows))
  ELSE UserRows(Tail(rows))

\* mutant: the rows of role assistant are not recognised and are skipped
Rehydrated_UserRowsOnly(mem, previous_messages) ==
  IF Rehydrates(mem, previous_messages)
  THEN [i \in DOMAIN UserRows(previous_messages) |->
          Turn(UserRows(previous_messages)[i].role, UserRows(previous_messages)[i].content,
               UserRows(previous_messages)[i].rid)]
  ELSE mem

\* lines 127-136: previous messages loaded into an empty memory
Rehydrated(mem, previous_messages) ==
  IF Rehydrates(mem, previous_messages)
  THEN [i \in DOMAIN previous_messages |->
          Turn(previous_messages[i].role, previous_messages[i].content,
               previous_messages[i].rid)]
  ELSE mem

\* lines 138-147 and process_message lines 154-157: the user row is added
\* to the database session, the trigger is evaluated, the chain loads the
\* memory into the prompt and the primary generation call is issued.
\* hydrated records that this request loaded the history into memory.
IssuePrimary(r, mem) ==
  req' = [req EXCEPT ![r] = [@ EXCEPT !.pc = "generating", !.prev = <<>>,
                                      !.is_submit = TriggerFor[req[r].content],
                                      !.hydrated = Rehydrates(memory, req[r].prev),
                                      !.prompt = mem]]

(***************************************************************************)
(* chat, lines 111-117 and on to the primary generation call, for a        *)
(* request without session_id: the new session row is committed (its id    *)
(* is fresh: the request's number), clear_memory, and the message is       *)
(* processed up to the primary generation call.  The awaits of the commit  *)
(* and the refresh touch nothing another request reads.                    *)
(***************************************************************************)
StartNew(r, text) ==
  /\ Arrives(r)
  /\ sessions' = sessions \cup {r}
  /\ memory' = <<>>
  /\ req' = [req EXCEPT ![r] = [@ EXCEPT !.pc = "generating", !.sid = r,
                                         !.new = TRUE, !.content = text,
                                         !.alone = Alone(r),
                                         !.is_submit = TriggerFor[text],
                                         !.prompt = <<>>]]
  /\ UNCHANGED <<store, records, pure_vars>>

(***************************************************************************)
(* chat, lines 126 onwards, for a continued session: rehydration, then the *)
(* message is processed up to the primary generation call.                 *)
(***************************************************************************)
StartResume(r) ==
  /\ ~Blocked
  /\ req[r].pc = "fetching"
  /\ memory' = Rehydrated(memory, req[r].prev)
  /\ IssuePrimary(r, Rehydrated(memory, req[r].prev))
  /\ UNCHANGED <<store, records, sessions, pure_vars>>

\* mutant: the user turn is put in memory before the call and stays there
PrimaryFails_KeepsUserTurn(r) ==
  /\ ~Blocked
  /\ req[r].pc = "generating"
  /\ memory' = Append(memory, [role |-> "user", content |-> req[r].content, rid |-> r])
  /\ req' = [req EXCEPT ![r] = [@ EXCEPT !.pc = "error", !.calls = 1,
                                         !.failed = "primary", !.prompt = <<>>]]
  /\ UNCHANGED <<store, records, sessions, pure_vars>>

(***************************************************************************)
(* The primary generation call raises: process_message re-raises (lines    *)
(* 234-236), chat answers 500 (lines 212-214) and the database session is  *)
(* closed without a commit.  The chain saves nothing to memory.            *)
(***************************************************************************)
PrimaryFails(r) ==
  /\ ~Blocked
  /\ req[r].pc = "generating"
  /\ req' = [req EXCEPT ![r] = [@ EXCEPT !.pc = "error", !.calls = 1,
                                         !.failed = "primary", !.prompt = <<>>]]
  /\ UNCHANGED <<memory, store, records, sessions, pure_vars>>

\* mutant: only the generated text is saved
SaveContext_AssistantOnly(mem, r, response) ==
  mem \o <<[role |-> "assistant", content |-> response, rid |-> r]>>

\* LLMChain saves the turn pair when the call has returned: the input and
\* the generated text
SaveContext(mem, r, response) ==
  mem \o <<Turn("user", req[r].content, r), Turn("assistant", response, r)>>

(***************************************************************************)
(* process_message returns `result` after `made` generation calls: chat    *)
(* runs on to its await of the commit (lines 149-176), or fails on a value *)
(* it cannot store.  The request record after that.                        *)
(***************************************************************************)
Stored(r, response, esc, made, result, shaped) ==
  IF StoresRecord(result) /\ ~shaped.ok
  THEN [req[r] EXCEPT !.pc = "error", !.calls = made, !.failed = "handler",
                      !.response = response, !.completion_response = esc,
                      !.result = result, !.prompt = <<>>]
  ELSE [req[r] EXCEPT !.pc = "committing", !.calls = made,
                      !.failed = IF esc = GenFailure THEN "escalation" ELSE "none",
                      !.response = response, !.completion_response = esc,
                      !.result = result, !.prompt = <<>>,
                      !.rec = IF StoresRecord(result) THEN <<shaped.data>> ELSE <<>>]

Handled(r, response, esc, made) ==
  Stored(r, response, esc, made, ResultFor[req[r].is_submit, response, esc],
         StoreShape(ResultFor[req[r].is_submit, response, esc].parsed_data))

(***************************************************************************)
(* The primary generation call returns `response`: the chain saves the     *)
(* turn pair.  Then either process_message returns, or it enters the       *)
(* escalation call (line 201).                                             *)
(***************************************************************************)
PrimaryReturns(r, response) ==
  /\ ~Blocked
  /\ req[r].pc = "generating"
  /\ memory' = SaveContext(memory, r, response)
  /\ IF EscalatesFor[req[r].is_submit, response]
     THEN req' = [req EXCEPT ![r] = [@ EXCEPT !.pc = "escalating", !.calls = 1,
                                              !.response = response,
                                              !.prompt = <<>>]]
     ELSE req' = [req EXCEPT ![r] = Handled(r, response, NoCall, 1)]
  /\ UNCHANGED <<store, records, sessions, pure_vars>>

(***************************************************************************)
(* The escalation call returns `esc`, a reply or GenFailure when it        *)
(* raises: process_message runs to its return (lines 205-225).             *)
(***************************************************************************)
EscalationReturns(r, esc) ==
  /\ req[r].pc = "escalating"
  /\ req' = [req EXCEPT ![r] = Handled(r, req[r].response, esc, 2)]
  /\ UNCHANGED <<memory, store, records, sessions, pure_vars>>

\* lines 179-201: the latest record of the session, shaped for the response
LatestRecord(recs, sid) ==
  LET mine == SelectSeq2(recs, sid) IN
  IF mine = <<>> \/ ~Truthy(mine[Len(mine)].data) THEN <<>>
  ELSE <<StoreShape(mine[Len(mine)].data).data>>

(***************************************************************************)
(* chat, lines 176-210: the commit of the user row, the assistant row and  *)
(* the record, if any; then the latest record of the session is read back  *)
(* and the response is returned.                                           *)
(***************************************************************************)
Commit(r) ==
  /\ ~Blocked
  /\ req[r].pc = "committing"
  /\ store' = store \o <<Row(req[r].sid, "user", req[r].content, r),
                         Row(req[r].sid, "assistant", req[r].result.response, r)>>
  /\ records' = records \o [i \in DOMAIN req[r].rec |->
                              [sid |-> req[r].sid, data |-> req[r].rec[i], rid |-> r]]
  /\ req' = [req EXCEPT ![r] = [@ EXCEPT !.pc = "done", !.response = <<>>,
                                         !.completion_response = NoCall,
                                         !.project_data =
                                           LatestRecord(records', req[r].sid)]]
  /\ UNCHANGED <<memory, sessions, pure_vars>>

\* the backend answers the primary call
PrimaryCompletes(r) == \E response \in Replies : PrimaryReturns(r, response)

\* the backend answers the escalation call, or the call raises
EscalationCompletes(r) ==
  \E esc \in EscReplies \cup {GenFailure} : EscalationReturns(r, esc)

Next ==
  \/ \E r \in Requests, text \in UserTexts : StartNew(r, text)
  \/ \E r \in Requests, sid \in {0} \cup Requests, text \in UserTexts : BeginResume(r, sid, text)
  \/ \E r \in Requests : StartResume(r)
  \/ \E r \in Requests : PrimaryFails(r)
  \/ \E r \in Requests : PrimaryCompletes(r)
  \/ \E r \in Requests : EscalationCompletes(r)
  \/ \E r \in Requests : Commit(r)

Spec == Init /\ [][Next]_vars

(***************************************************************************)
(* The same service with MaxArrivals requests arriving, every user text    *)
(* "ok" and every reply prose, so that no message triggers: the runs in    *)
(* which sessions start and are resumed one after, or beside, the other.   *)
(***************************************************************************)
MaxArrivals == 3

InitHydration ==
  /\ Started(MaxArrivals)
  /\ input = NoInput
  /\ output = NoOutput

NextHydration ==
  \/ \E r \in 1..MaxArrivals : StartNew(r, MsgOk)
  \/ \E r \in 1..MaxArrivals, sid \in 0..MaxArrivals : BeginResume(r, sid, MsgOk)
  \/ \E r \in 1..MaxArrivals : StartResume(r)
  \/ \E r \in 1..MaxArrivals : PrimaryFails(r)
  \/ \E r \in 1..MaxArrivals : PrimaryReturns(r, ReplyProse)
  \/ \E r \in 1..MaxArrivals : Commit(r)

SpecHydration == InitHydration /\ [][NextHydration]_vars

(***************************************************************************)
(* Definitions the properties share.                                       *)
(***************************************************************************)
\* process_message has returned a result for request r
Returned(r) ==
  \/ req[r].pc \in {"committing", "done"}
  \/ req[r].pc = "error" /\ req[r].failed = "handler"

\* process_message has just returned for r: its local variables are live
JustReturned(r) ==
  \/ req[r].pc = "committing"
  \/ req[r].pc = "error" /\ req[r].failed = "handler"

\* neither the parser nor the extraction finds JSON in the text
NoJson(text) ==
  ~ParserParse(text).ok /\ ~JsonLoads(_extract_json_from_text(text)).ok
NoJsonFor == [text \in EscReplies |-> NoJson(text)]

\* the session of the message a turn or row belongs to
SessionOf(rid) == IF rid = 0 THEN 0 ELSE req[rid].sid

TurnsOf(r) == {i \in DOMAIN memory : memory[i].rid = r}
RowsOf(r) == {i \in DOMAIN store : store[i].rid = r}
RecordsOf(r) == {i \in DOMAIN records : records[i].rid = r}

\* C1: no message makes more than 2 generation calls; a triggered message
\* for which every call returns text holding no JSON makes exactly 2 calls
\* (the primary and the escalation) and its result is not final and carries
\* no parsed data.
C1_EscalationBound ==
  \A r \in Requests :
    /\ req[r].calls <= 2
    /\ ( /\ JustReturned(r)
         /\ TriggerFor[req[r].content]
         /\ NoJsonFor[req[r].response]
         /\ req[r].completion_response # GenFailure
         /\ req[r].completion_response # NoCall => NoJsonFor[req[r].completion_response] )
       => /\ req[r].calls = 2
          /\ req[r].completion_response # NoCall
          /\ ~req[r].result.is_final
          /\ req[r].result.parsed_data = JNull

C1_Witness ==
  \E r \in Requests :
    /\ req[r].pc = "committing"
    /\ req[r].content = MsgSubmit
    /\ req[r].response = ReplyProse
    /\ req[r].completion_response = ReplyProse
    /\ req[r].calls = 2

\* a normalized record: a project object and a non-empty talents array
Normalized(d) ==
  /\ d.k = "obj"
  /\ "project" \in DOMAIN d.fields
  /\ d.fields["project"].k = "obj"
  /\ "talents" \in DOMAIN d.fields
  /\ d.fields["talents"].k = "arr"
  /\ d.fields["talents"].items # <<>>

\* C2: every result with is_final = TRUE carries a normalized record, be it
\* from the primary reply or from the escalation round.
C2_FinalIsNormalized ==
  \A r \in Requests :
    (Returned(r) /\ req[r].result.is_final) => Normalized(req[r].result.parsed_data)

\* C3: a message whose text holds no trigger keyword gets the raw reply as
\* its response, no parsed data, is_final = FALSE, after exactly one
\* generation call, whatever the reply holds.
C3_NoTriggerIsPlainReply ==
  \A r \in Requests :
    (JustReturned(r) /\ ~IsSubmit(req[r].content))
      => /\ req[r].result = Result(req[r].response, JNull, FALSE)
         /\ req[r].calls = 1
         /\ req[r].completion_response = NoCall

\* the reply names a trigger keyword, or is itself a JSON record
C3_Witness ==
  /\ \E r \in Requests :
       /\ req[r].pc = "committing" /\ req[r].content = MsgOk
       /\ req[r].response = ReplyProse /\ IsSubmit(req[r].response)
  /\ \E r \in Requests :
       /\ req[r].pc = "committing" /\ req[r].content = MsgOk
       /\ req[r].response = ReplyFencedTalent

\* C4: the memory loaded into the prompt of a message of session S holds
\* only turns of messages of S.
C4_MemoryIsolated ==
  \A r \in Requests :
    req[r].pc = "generating"
      => \A i \in DOMAIN req[r].prompt : SessionOf(req[r].prompt[i].rid) = req[r].sid

\* the requests that have arrived
Arrived == {r \in Requests : req[r].pc # "idle"}

\* every message so far is of the brand-new session of request 1, each
\* arrived with no other request in flight, none hit a generation failure,
\* and each has been processed
SequentialInNewSession ==
  /\ Arrived # {}
  /\ req[1].new
  /\ \A r \in Arrived :
       /\ req[r].sid = 1
       /\ req[r].alone
       /\ req[r].failed \notin {"primary", "escalation"}
       /\ req[r].pc \in {"committing", "done", "error"}

\* C5: after N sequential messages in one brand-new session, none hitting a
\* generation failure, memory holds exactly 2N turns: for the i-th message
\* its user turn, then an assistant turn, in submission order; also when
\* the message triggered or ran the escalation round.
C5_MemoryOrdering ==
  SequentialInNewSession
    => /\ Len(memory) = 2 * Cardinality(Arrived)
       /\ \A r \in Arrived :
            /\ memory[2 * r - 1] = Turn("user", req[r].content, r)
            /\ memory[2 * r].role = "assistant"
            /\ memory[2 * r].rid = r

C5_Witness ==
  /\ SequentialInNewSession
  /\ Cardinality(Arrived) = 2
  /\ req[1].pc = "done" /\ req[1].calls = 2 /\ req[1].result.is_final
  /\ req[2].pc = "done" /\ req[2].calls = 1
  /\ Len(memory) = 4

\* C6: a message whose primary generation call failed ends in an error, and
\* none of its turns is in memory, none of its rows and no record of it is
\* in the message store.
C6_PrimaryFailureLeavesNoTrace ==
  \A r \in Requests :
    req[r].failed = "primary"
      => /\ req[r].pc = "error"
         /\ TurnsOf(r) = {}
         /\ RowsOf(r) = {}
         /\ RecordsOf(r) = {}

\* a message failed while the memory and the store hold other messages
C6_Witness ==
  \E r \in Requests :
    /\ req[r].failed = "primary"
    /\ memory # <<>>
    /\ \E q \in Requests : RowsOf(q) # {}

\* C7: a message whose escalation generation call failed ends in an error
\* and none of its turns is in memory.
C7_EscalationFailureIsFatal ==
  \A r \in Requests :
    req[r].failed = "escalation" => (req[r].pc = "error" /\ TurnsOf(r) = {})

\* C8: a request ends in an error only when a generation call failed.
C8_OnlyGenerationFails ==
  \A r \in Requests :
    req[r].pc = "error" => req[r].failed \in {"primary", "escalation"}

\* C9: no two messages of one session are both waiting on their primary
\* generation call.
C9_SessionSequential ==
  \A r1, r2 \in Requests :
    (r1 # r2 /\ req[r1].pc = "generating" /\ req[r2].pc = "generating")
      => req[r1].sid # req[r2].sid

\* C10: for "#submit" answered by the fenced record with a singular talent,
\* the result of process_message is final, its talents is the one-element
\* array of that talent, and it has no talent key.
C10_ScenarioB ==
  \A r \in Requests :
    (JustReturned(r) /\ req[r].content = MsgSubmit
       /\ req[r].response = ReplyFencedTalent)
      => /\ req[r].result.is_final
         /\ req[r].result.parsed_data.k = "obj"
         /\ "talents" \in DOMAIN req[r].result.parsed_data.fields
         /\ req[r].result.parsed_data.fields["talents"] = JArr(<<TalentValue>>)
         /\ "talent" \notin DOMAIN req[r].result.parsed_data.fields

\* C11: for the user text "ok" and replies that hold no JSON on every call,
\* processing the message makes exactly 2 generation calls and the result
\* is not final and carries no parsed data.
C11_ScenarioC ==
  \A r \in Requests :
    ( /\ JustReturned(r)
      /\ req[r].content = MsgOk
      /\ NoJsonFor[req[r].response]
      /\ req[r].completion_response # GenFailure
      /\ req[r].completion_response # NoCall => NoJsonFor[req[r].completion_response] )
    => /\ req[r].calls = 2
       /\ ~req[r].result.is_final
       /\ req[r].result.parsed_data = JNull

\* C11 as amended: for the user text "ok" and replies that hold no JSON,
\* processing the message makes exactly 1 generation call (no escalation
\* round is entered) and the result is not final and carries no parsed data.
C11_ScenarioC_OneCall ==
  \A r \in Requests :
    (JustReturned(r) /\ req[r].content = MsgOk /\ NoJsonFor[req[r].response])
      => /\ req[r].calls = 1
         /\ req[r].completion_response = NoCall
         /\ ~req[r].result.is_final
         /\ req[r].result.parsed_data = JNull

C11_Witness ==
  \E r \in Requests :
    /\ req[r].pc = "committing" /\ req[r].content = MsgOk
    /\ req[r].response = ReplyProse /\ NoJson(req[r].response)
    /\ req[r].calls = 1

\* the requests that loaded the persisted history of session sid into memory
HydrationsOf(sid) == {r \in DOMAIN req : req[r].hydrated /\ req[r].sid = sid}

\* C12: the persisted history of a session is replayed into memory at most
\* once during the life of the process, whatever new-session starts and
\* resumes happen.
C12_HydratedAtMostOnce ==
  \A sid \in sessions : Cardinality(HydrationsOf(sid)) <= 1

\* the (role, content) pairs of a sequence of turns or rows, for message r
RECURSIVE PairsOf(_, _)
PairsOf(seq, r) ==
  IF seq = <<>> THEN <<>>
  ELSE IF seq[1].rid = r
       THEN <<[role |-> seq[1].role, content |-> seq[1].content]>> \o PairsOf(Tail(seq), r)
       ELSE PairsOf(Tail(seq), r)

\* C15: the assistant turn in memory for a message is the response text of
\* its result, and once the message has completed its turns in memory are
\* the turns persisted for it, in the same order.
C15_AssistantTurnIsResponseText ==
  \A r \in Requests :
    /\ (Returned(r) /\ TurnsOf(r) # {})
         => \A i \in TurnsOf(r) :
              memory[i].role = "assistant" => memory[i].content = req[r].result.response
    /\ (req[r].pc = "done" /\ TurnsOf(r) # {})
         => PairsOf(memory, r) = PairsOf(store, r)

\* the primary reply parses as a JSON object that fails normalization
FailsNormalization(text) ==
  LET parsed == ParserParse(text) IN
  parsed.ok /\ parsed.val.k = "obj" /\ ~_validate_project_data(parsed.val).ok
FailsNormalizationFor == [text \in Replies |-> FailsNormalization(text)]

\* C16: a triggered message whose primary reply parses as a JSON object
\* that fails normalization (no project, no talent and no talents, or an
\* empty talents array) makes the escalation call before it returns.
C16_EscalatesOnNormalizationFailure ==
  \A r \in Requests :
    (JustReturned(r) /\ req[r].is_submit /\ FailsNormalizationFor[req[r].response])
      => req[r].calls = 2 /\ req[r].completion_response # NoCall

\* C17: while the primary generation call of a message is in flight, the
\* last turn in memory is the user turn of that message.
C17_UserTurnBeforeGeneration ==
  \A r \in Requests :
    req[r].pc = "generating"
      => /\ memory # <<>>
         /\ memory[Len(memory)] = Turn("user", req[r].content, r)

\* request q is the next to arrive
NextToArrive(q) ==
  req[q].pc = "idle" /\ \A p \in DOMAIN req : p < q => req[p].pc # "idle"

\* request q is between two steps of chat
InFlight(q) == req[q].pc \in {"fetching", "generating", "escalating", "committing"}

\* a step of request q: it is accepted, or its next await completes
Progress(q) ==
  \/ \E text \in UserTexts : StartNew(q, text)
  \/ StartResume(q)
  \/ PrimaryCompletes(q)
  \/ EscalationCompletes(q)
  \/ Commit(q)

\* C20: while a message of one session waits on a generation call, primary
\* or escalation, a request of another session can be accepted, and one in
\* flight can take its next step.
C20_GenerationDoesNotBlock ==
  \A r, q \in Requests :
    ( /\ r # q
      /\ req[r].pc \in {"generating", "escalating"}
      /\ \/ NextToArrive(q)
         \/ InFlight(q) /\ req[q].sid # req[r].sid )
    => ENABLED Progress(q)

\* the request has ended: its response was returned, or chat failed on the
\* result of process_message
Ended(r) ==
  \/ req[r].pc = "done"
  \/ req[r].pc = "error" /\ req[r].failed = "handler"

\* C21: a request whose result is final has stored exactly one final record
\* by the time it ends, and a request whose result is not final has stored
\* none.
C21_RecordStoredIffFinal ==
  \A r \in Requests :
    Ended(r) =>
      Cardinality(RecordsOf(r)) = IF req[r].result.is_final THEN 1 ELSE 0

\* C22: in every state memory has even length and its turns alternate user,
\* assistant, each user turn followed by the assistant turn of the same
\* message.
C22_MemoryAlternates ==
  /\ Len(memory) % 2 = 0
  /\ \A i \in DOMAIN memory :
       IF i % 2 = 1
       THEN /\ memory[i].role = "user"
            /\ i + 1 \in DOMAIN memory
            /\ memory[i + 1].rid = memory[i].rid
       ELSE memory[i].role = "assistant"

\* memory was rehydrated by request 1, request 2 arrived while request 1
\* was in flight, and both have saved their turns
C22_Witness ==
  /\ Len(memory) = 6
  /\ req[1].hydrated
  /\ ~req[2].alone
  /\ TurnsOf(1) # {} /\ TurnsOf(2) # {}

(***************************************************************************)
(* Trigger detection on its own: a text over a small alphabet is drawn,    *)
(* and the test of process_message line 154 is applied to it, to its       *)
(* upper-cased form and to its case-swapped form.                          *)
(***************************************************************************)
MaxTextLen == 5

TriggerAlphabet == {"#", "e", "n", "d", "o", "E"}
TriggerTexts == UNION {[1..n -> TriggerAlphabet] : n \in 0..MaxTextLen}

\* the chat service at rest
ChatAtRest == Started(MaxRequests)

InitTrigger ==
  /\ ChatAtRest
  /\ input \in [fn : {"detect"}, text : TriggerTexts]
  /\ output = NoOutput

Detect ==
  /\ input.fn = "detect"
  /\ output = NoOutput
  /\ output' = [fn |-> "detect",
                is_submit |-> IsSubmit(input.text),
                upper |-> IsSubmit(Upper(input.text)),
                swapped |-> IsSubmit(SwapCase(input.text))]
  /\ UNCHANGED <<memory, store, records, sessions, req, input>>

NextTrigger == Detect

SpecTrigger == InitTrigger /\ [][NextTrigger]_vars

\* some trigger phrase occurs in the text, letter case disregarded
HoldsPhrase(text) ==
  \E keyword \in SUBMIT_KEYWORDS :
    \E i \in 1..Len(text) :
      /\ i + Len(keyword) - 1 <= Len(text)
      /\ \A j \in 1..Len(keyword) :
           text[i + j - 1] \in {keyword[j], UpperChar(keyword[j])}

\* C13: the trigger is true exactly when the text holds a phrase of
\* SUBMIT_KEYWORDS, letter case disregarded, and it is the same for the
\* text in upper case and with the case of every letter swapped.
C13_TriggerIsCaseInsensitiveSubstring ==
  output.fn = "detect"
    => /\ output.is_submit = HoldsPhrase(input.text)
       /\ output.upper = output.is_submit
       /\ output.swapped = output.is_submit

C13_Witness ==
  /\ output.fn = "detect"
  /\ input.text = <<"o", "#", "E", "n", "d">>
  /\ output.is_submit /\ output.upper /\ output.swapped

(***************************************************************************)
(* _validate_project_data on its own: a parsed value is drawn and the      *)
(* function is applied to it, and again to what it leaves; or a project    *)
(* and a talent are drawn and the function is applied to the record with   *)
(* the singular talent and to the record with the talents array.           *)
(***************************************************************************)
NormValues ==
  {JNull, JNum(1), JStr("dev"), JArr(<<>>), JArr(<<TalentValue>>), JObj(NoFields),
   TalentValue}
NormKeys == {"project", "talent", "talents", "name"}
NormRecords == {JObj(f) : f \in UNION {[K -> NormValues] : K \in SUBSET NormKeys}}

InitNormalize ==
  /\ ChatAtRest
  /\ \/ input \in [fn : {"normalize"}, data : NormRecords \cup NormValues]
     \/ input \in [fn : {"pair"}, project : NormValues, talent : NormValues]
  /\ output = NoOutput

Normalize ==
  /\ input.fn = "normalize"
  /\ output = NoOutput
  /\ LET once == _validate_project_data(input.data) IN
     output' = [fn |-> "normalize", once |-> once,
                twice |-> IF once.ok THEN _validate_project_data(once.data) ELSE once]
  /\ UNCHANGED <<memory, store, records, sessions, req, input>>

NormalizePair ==
  /\ input.fn = "pair"
  /\ output = NoOutput
  /\ output' =
       [fn |-> "pair",
        singular |-> _validate_project_data(
                       JObj(Put(Put(NoFields, "project", input.project),
                                "talent", input.talent))),
        plural |-> _validate_project_data(
                     JObj(Put(Put(NoFields, "project", input.project),
                              "talents", JArr(<<input.talent>>))))]
  /\ UNCHANGED <<memory, store, records, sessions, req, input>>

NextNormalize == Normalize \/ NormalizePair

SpecNormalize == InitNormalize /\ [][NextNormalize]_vars

\* C14: for every project P and talent T, normalizing {project: P,
\* talent: T} and normalizing {project: P, talents: [T]} both succeed, with
\* the same record: P under project, [T] under talents, nothing else.
C14_NormalizerEquivalence ==
  output.fn = "pair"
    => /\ output.singular.ok
       /\ output.plural.ok
       /\ output.singular.data = output.plural.data
       /\ output.plural.data =
            JObj(Put(Put(NoFields, "project", input.project),
                     "talents", JArr(<<input.talent>>)))

\* the talent is itself an array, and an empty one
C14_Witness ==
  /\ output.fn = "pair"
  /\ input.talent = JArr(<<>>)
  /\ input.project = JObj(NoFields)
  /\ output.singular.ok

\* the keys of a record, none for a value that is no record
KeysOf(data) == IF data.k = "obj" THEN DOMAIN data.fields ELSE {}

\* C19: normalization fails for a record with no project key, or with
\* neither talent nor talents, or with an empty talents array; otherwise it
\* succeeds and talents is a non-empty array: the one-element array of the
\* singular talent, whose key is dropped, when talents was absent; the
\* one-element array of the talents value when that was no array; the
\* talents array itself otherwise.  Every other field is as it was, and
\* normalizing the result again changes nothing.
C19_NormalizerRules ==
  output.fn = "normalize"
    => LET d == input.data
           keys == KeysOf(d)
           out == output.once
           fails == \/ "project" \notin keys
                    \/ "talent" \notin keys /\ "talents" \notin keys
                    \/ "talents" \in keys /\ d.fields["talents"] = JArr(<<>>)
       IN /\ out.ok = ~fails
          /\ out.ok =>
               /\ out.data.k = "obj"
               /\ "talents" \in DOMAIN out.data.fields
               /\ out.data.fields["talents"].k = "arr"
               /\ out.data.fields["talents"].items # <<>>
               /\ "talents" \notin keys =>
                    /\ out.data.fields["talents"] = JArr(<<d.fields["talent"]>>)
                    /\ DOMAIN out.data.fields = (keys \ {"talent"}) \cup {"talents"}
               /\ "talents" \in keys =>
                    /\ out.data.fields["talents"] =
                         IF d.fields["talents"].k = "arr" THEN d.fields["talents"]
                         ELSE JArr(<<d.fields["talents"]>>)
                    /\ DOMAIN out.data.fields = keys
               /\ \A key \in keys \ {"talent", "talents"} :
                    out.data.fields[key] = d.fields[key]
               /\ "talent" \in keys /\ "talents" \in keys =>
                    out.data.fields["talent"] = d.fields["talent"]
               /\ output.twice = out

\* a singular talent beside other fields, and a talents value that is no array
C19_Witness ==
  /\ output.fn = "normalize"
  /\ output.once.ok
  /\ KeysOf(input.data) = {"project", "talents", "talent", "name"}
  /\ input.data.fields["talents"] = JNull
  /\ output.once.data.fields["talents"] = JArr(<<JNull>>)

(***************************************************************************)
(* _extract_json_from_text on its own: a text is drawn, put together from  *)
(* at most MaxPieces pieces (fence marks, fenced blocks, prose, braces,    *)
(* JSON objects), and the function is applied to it.                       *)
(***************************************************************************)
MaxPieces == 4

\* an object whose string value holds fence marks: {"name": "``````1```"}
ObjFenced == <<"{", "\"name\"", ":", QUOTE, FENCE, FENCE, "1", FENCE, QUOTE, "}">>
ObjEmpty == <<"{", "}">>
ExtractObjects == {TalentText, ObjFenced, ObjEmpty}

Prose == <<"a", " ">>
\* the opening fence mark with the language tag
FenceOpen == <<FENCE>> \o JsonTag \o <<"\n">>
FencedOne == <<FENCE, "1", FENCE>>
FencedProse == <<FENCE>> \o Prose \o <<FENCE>>

ExtractPieces ==
  {<<FENCE>>, FenceOpen, FencedOne, FencedProse, Prose, <<"{">>, <<"}">>,
   TalentText, ObjFenced}

RECURSIVE TextsOf(_)
\* the texts of at most n pieces
TextsOf(n) ==
  IF n = 0 THEN {<<>>}
  ELSE LET shorter == TextsOf(n - 1) IN
       shorter \cup {t \o piece : t \in shorter, piece \in ExtractPieces}

ExtractTexts == TextsOf(MaxPieces)

InitExtract ==
  /\ ChatAtRest
  /\ input \in [fn : {"extract"}, text : ExtractTexts]
  /\ output = NoOutput

Extract ==
  /\ input.fn = "extract"
  /\ output = NoOutput
  /\ output' = [fn |-> "extract", text |-> _extract_json_from_text(input.text)]
  /\ UNCHANGED <<memory, store, records, sessions, req, input>>

NextExtract == Extract

SpecExtract == InitExtract /\ [][NextExtract]_vars

\* the text parses as JSON, surrounding whitespace disregarded
Parses(text) == JsonLoads(Strip(text)).ok

\* the span from the first "{" to the last "}", <<>> when there is none
BraceSpan(text) ==
  LET first == FindFrom(text, "{", 1)
      last == RFind(text, "}", Len(text))
  IN IF first >= 1 /\ last > first THEN SubSeq(text, first, last) ELSE <<>>

\* first match wins, in the fixed order: fenced regions, brace span, text
FirstMatchWins(text, out) ==
  LET regions == FenceMatches(text, 1)
      good == {i \in DOMAIN regions : Parses(regions[i])}
      span == BraceSpan(text)
  IN /\ good # {} =>
          \E i \in good : (\A j \in good : i <= j) /\ out = Strip(regions[i])
     /\ (good = {} /\ span # <<>> /\ JsonLoads(span).ok) => out = span
     /\ (good = {} /\ ~(span # <<>> /\ JsonLoads(span).ok)) => out = text
     /\ JsonLoads(out).ok \/ out = text

\* J wrapped in a fence, with and without the language tag
WrapInFence(J) == {FenceOpen \o J \o <<FENCE>>, <<FENCE>> \o J \o <<FENCE>>}
\* J surrounded by prose
InProse(J) == {a \o J \o b : a \in {<<>>, Prose}, b \in {<<>>, Prose}} \ {J}

\* the text extracted from J, wrapped or in prose, parses back to J
RoundTrip(J, text, out) ==
  text \in WrapInFence(J) \cup InProse(J)
    => JsonLoads(out).ok /\ JsonLoads(out).val = JsonLoads(J).val

\* C18: extraction returns the first fenced region, in document order,
\* that parses as JSON; if none does, the span from the first "{" to the
\* last "}" when it parses; otherwise the text unchanged.  So the result
\* parses as JSON or is the input, and for every JSON object J the text
\* extracted from J wrapped in a fence, or from J in prose, parses back to J.
C18_ExtractFirstMatchRoundTrip ==
  output.fn = "extract"
    => /\ FirstMatchWins(input.text, output.text)
       /\ \A J \in ExtractObjects : RoundTrip(J, input.text, output.text)

\* C18 as amended: the same, the round trip only for the JSON objects J
\* whose text holds no fence mark.
C18_ExtractFirstMatchRoundTripNoFence ==
  output.fn = "extract"
    => /\ FirstMatchWins(input.text, output.text)
       /\ \A J \in {X \in ExtractObjects : FindFrom(X, FENCE, 1) = 0} :
            RoundTrip(J, input.text, output.text)

\* the first fenced region does not parse and the second does, while the
\* brace span parses too
C18_Witness ==
  /\ output.fn = "extract"
  /\ input.text = FencedProse \o FenceOpen \o TalentText \o <<FENCE>>
  /\ output.text = TalentText

====
